---- MODULE Spec2Model ----
(***************************************************************************)
(* A model of baseline/utilities/utils.py: the training callbacks SaveBest *)
(* and EarlyStopping, the running statistics AverageMeter/AverageMeterSet  *)
(* and the label encoder ManyHotEncoder.  Every object is independent of   *)
(* the others, so each has its own specification over its own variables.   *)
(***************************************************************************)
EXTENDS Integers, Sequences, FiniteSets, TLC

(***************************************************************************)
(* Bounds of the model.                                                    *)
(***************************************************************************)
MaxVal == 5
MaxEsCalls == 5
MaxSbCalls == 4
MaxPatience == 2
MaxAmVal == 3
MaxN == 2
MaxUpdates == 3
NFrames == 5
MaxItems == 2

\* The metric values given to the callbacks.  Only their order and their
\* position relative to the initial best_val (0 under "sup") matter.
Values == {0 - 1, 0} \cup (3..MaxVal)

\* np.inf: above every value a call can pass.
Inf == MaxVal + 1

Modes == {"inf", "sup"}

VARIABLES
    \* EarlyStopping
    es_patience, es_first_early_wait, es_val_comp,
    es_best_val, es_current_epoch, es_best_epoch,
    es_hist, es_rets,
    \* SaveBest
    sb_comp, sb_best_val, sb_best_epoch, sb_current_epoch,
    sb_hist, sb_rets,
    \* AverageMeterSet
    meters, am_hist,
    \* ManyHotEncoder: the method called, its argument and what it gave
    enc_op, enc_arg, enc_res

esVars == <<es_patience, es_first_early_wait, es_val_comp,
            es_best_val, es_current_epoch, es_best_epoch, es_hist, es_rets>>
sbVars == <<sb_comp, sb_best_val, sb_best_epoch, sb_current_epoch,
            sb_hist, sb_rets>>
amVars == <<meters, am_hist>>
encVars == <<enc_op, enc_arg, enc_res>>
vars == <<esVars, sbVars, amVars, encVars>>

Last(s) == s[Len(s)]

\* __init__ of both callbacks: the first best_val of a comparison mode.
InitBestVal(val_comp) == IF val_comp = "inf" THEN Inf ELSE 0

(***************************************************************************)
(* EarlyStopping                                                           *)
(***************************************************************************)
ES_Init ==
    /\ es_patience \in 0..MaxPatience
    /\ es_first_early_wait \in 0..MaxPatience
    /\ es_val_comp \in Modes
    /\ es_best_val = InitBestVal(es_val_comp)
    /\ es_current_epoch = 0
    /\ es_best_epoch = 0
    /\ es_hist = <<>>
    /\ es_rets = <<>>

\* `current` of apply: the value strictly improves on best_val.
ES_Current(val_comp, value, best) ==
    \/ (val_comp = "inf" /\ value < best)
    \/ (val_comp = "sup" /\ value > best)

\* The elif condition of apply.
ES_PatienceOverGE(cur, best, patience, wait) ==
    cur - best >= patience /\ cur > wait
ES_PatienceOverNoWait(cur, best, patience, wait) ==
    cur - best > patience
ES_PatienceOver(cur, best, patience, wait) ==
    cur - best > patience /\ cur > wait

ES_apply(value) ==
    /\ Len(es_hist) < MaxEsCalls
    /\ IF ES_Current(es_val_comp, value, es_best_val)
       THEN /\ es_best_val' = value
            /\ es_best_epoch' = es_current_epoch
            /\ es_current_epoch' = es_current_epoch + 1
            /\ es_rets' = Append(es_rets, FALSE)
       ELSE IF ES_PatienceOver(es_current_epoch, es_best_epoch,
                               es_patience, es_first_early_wait)
       THEN /\ es_current_epoch' = 0
            /\ es_rets' = Append(es_rets, TRUE)
            /\ UNCHANGED <<es_best_val, es_best_epoch>>
       ELSE /\ es_current_epoch' = es_current_epoch + 1
            /\ es_rets' = Append(es_rets, FALSE)
            /\ UNCHANGED <<es_best_val, es_best_epoch>>
    /\ es_hist' = Append(es_hist, value)
    /\ UNCHANGED <<es_patience, es_first_early_wait, es_val_comp>>

ES_Call == \E value \in Values : ES_apply(value)

ES_Next == ES_Call /\ UNCHANGED <<sbVars, amVars, encVars>>

(***************************************************************************)
(* SaveBest                                                                *)
(***************************************************************************)
SB_Init ==
    /\ sb_comp \in Modes
    /\ sb_best_val = InitBestVal(sb_comp)
    /\ sb_best_epoch = 0
    /\ sb_current_epoch = 0
    /\ sb_hist = <<>>
    /\ sb_rets = <<>>

\* The second condition of apply: the value strictly improves on best_val.
SB_ImprovesGE(comp, value, best) ==
    \/ (comp = "inf" /\ value <= best)
    \/ (comp = "sup" /\ value >= best)
SB_Improves(comp, value, best) ==
    \/ (comp = "inf" /\ value < best)
    \/ (comp = "sup" /\ value > best)

SB_apply(value) ==
    /\ Len(sb_hist) < MaxSbCalls
    /\ IF SB_Improves(sb_comp, value, sb_best_val)
       THEN /\ sb_best_epoch' = sb_current_epoch
            /\ sb_best_val' = value
            /\ sb_rets' = Append(sb_rets, TRUE)
       ELSE /\ sb_rets' = Append(sb_rets, sb_current_epoch = 0)
            /\ UNCHANGED <<sb_best_epoch, sb_best_val>>
    /\ sb_current_epoch' = sb_current_epoch + 1
    /\ sb_hist' = Append(sb_hist, value)
    /\ UNCHANGED sb_comp

SB_Call == \E value \in Values : SB_apply(value)

SB_Next == SB_Call /\ UNCHANGED <<esVars, amVars, encVars>>

(***************************************************************************)
(* AverageMeter and AverageMeterSet                                        *)
(***************************************************************************)
Names == {"loss", "acc"}
AmValues == 0..MaxAmVal

Abs(x) == IF x < 0 THEN 0 - x ELSE x

RECURSIVE GCD(_, _)
GCD(a, b) == IF b = 0 THEN a ELSE GCD(b, a % b)

\* The quotient a / b of true division, b > 0, held exactly as a fraction in
\* lowest terms.
Quotient(a, b) ==
    LET g == GCD(Abs(a), b)
    IN  [num |-> a \div g, den |-> b \div g]

\* AverageMeter.reset, which __init__ calls.
AverageMeter_reset ==
    [val |-> 0, avg |-> [num |-> 0, den |-> 1], sum |-> 0, count |-> 0]

\* AverageMeter.update.
AverageMeter_updateUnweighted(m, val, n) ==
    LET sum == m.sum + val
        count == m.count + n
    IN  [val |-> val, avg |-> Quotient(sum, count), sum |-> sum, count |-> count]
AverageMeter_update(m, val, n) ==
    LET sum == m.sum + val * n
        count == m.count + n
    IN  [val |-> val, avg |-> Quotient(sum, count), sum |-> sum, count |-> count]

AM_Init ==
    /\ meters = <<>>
    /\ am_hist = <<>>

\* AverageMeterSet.update.
AverageMeterSet_update(name, value, n) ==
    /\ Len(am_hist) < MaxUpdates
    /\ LET created == IF name \notin DOMAIN meters
                      THEN (name :> AverageMeter_reset) @@ meters
                      ELSE meters
       IN  meters' = [created EXCEPT
                         ![name] = AverageMeter_update(created[name], value, n)]
    /\ am_hist' = Append(am_hist, <<name, value, n>>)

AM_Call ==
    \E name \in Names, value \in AmValues, n \in 1..MaxN :
        AverageMeterSet_update(name, value, n)

AM_Next == AM_Call /\ UNCHANGED <<esVars, sbVars, encVars>>

(***************************************************************************)
(* ManyHotEncoder: the values it is given                                  *)
(***************************************************************************)
\* self.labels, the vocabulary, and self.n_frames (set: the assertion that
\* opens encode_strong_df holds).
Labels == <<"Speech", "Dog">>
n_frames == NFrames

Frames == 0..(n_frames - 1)
Columns == 0..(Len(Labels) - 1)

\* A float nan where a label is expected, and a label outside the vocabulary.
NaN == "<nan>"
Unknown == "Cat"

InVocabulary(label) == \E k \in 1..Len(Labels) : Labels[k] = label

\* self.labels.index(label), for a label of the vocabulary.
Index(label) ==
    (CHOOSE k \in 1..Len(Labels) :
        Labels[k] = label /\ \A j \in 1..(k - 1) : Labels[j] # label) - 1

\* One element of a sequence, or one row of a table.  type is "str" (label
\* is the string), "list" (len elements; label, onset, offset are the first
\* three) or "float" (a nan, which has no len).  interned: the object is the
\* very object of the literal "", which is what `is not ""` tests.
Element(type, len, label, onset, offset, interned) ==
    [type |-> type, len |-> len, label |-> label,
     onset |-> onset, offset |-> offset, interned |-> interned]

Str(label) == Element("str", 0, label, 0, 0, FALSE)
Event(label, onset, offset) == Element("list", 3, label, onset, offset, FALSE)

\* [onset, offset) pairs.  For the last label of the vocabulary: every
\* 0 <= onset <= offset <= n_frames, one with onset > offset and one with a
\* negative onset.  For the other labels: the whole clip and one frame.
AllSpans ==
    {<<a, b>> \in (0..n_frames) \X (0..n_frames) : a <= b}
        \cup {<<1, 0>>, <<0 - 1, n_frames>>}

SpansOf(k) == IF k = Len(Labels) THEN AllSpans ELSE {<<0, n_frames>>, <<1, 2>>}

VocabularyEvents ==
    UNION {{Event(Labels[k], sp[1], sp[2]) : sp \in SpansOf(k)} :
              k \in 1..Len(Labels)}

EmptyStrings ==
    {Element("str", 0, "", 0, 0, i) : i \in BOOLEAN}

ListElements ==
    VocabularyEvents
        \cup {Event(Unknown, 0, 1)}
        \cup {Element("list", 3, "", 0, 1, i) : i \in BOOLEAN}
        \cup {Str(Labels[k]) : k \in 1..Len(Labels)}
        \cup {Str(Unknown)} \cup EmptyStrings
        \cup {Element("list", 2, Labels[1], 0, 0, FALSE),
              Element("float", 0, NaN, 0, 0, FALSE)}

WeakElements ==
    {Str(Labels[k]) : k \in 1..Len(Labels)}
        \cup {Str(Unknown), Element("float", 0, NaN, 0, 0, FALSE)}

RowElements ==
    VocabularyEvents \cup {Event(Unknown, 0, 1), Event(NaN, 0, 1)}

\* The rows of a table without onset and offset columns hold labels alone.
LabelRows ==
    {Event(Labels[k], 0, 0) : k \in 1..Len(Labels)}
        \cup {Event(Unknown, 0, 0), Event(NaN, 0, 0)}

StrongColumns == {"onset", "offset", "event_label"}
AllColumns == StrongColumns \cup {"filename"}

\* An argument of encode_weak or encode_strong_df.  type is the Python type
\* (a list stands for an ndarray too: both take the element loop);
\* text the value of a str; columns the columns of a DataFrame or the index
\* of a Series; items the elements of a sequence, the rows of a DataFrame,
\* the row a Series with an event index holds, or the characters of a str.
Arg(type, text, columns, items) ==
    [type |-> type, text |-> text, columns |-> columns, items |-> items]

\* The arguments that are no sequence of events or labels: strings, a
\* Series that is one row of a table (its index holds the column names),
\* and types neither method names (a tuple, a dict).
StrArgs ==
    {Arg("str", "empty", {}, <<>>), Arg("str", "", {}, <<>>),
     Arg("str", "Dog", {}, <<Str("D"), Str("o"), Str("g")>>)}

RowSeriesArgs ==
    {Arg("Series", "", AllColumns, <<row>>) : row \in RowElements}

OtherArgs ==
    {Arg("tuple", "", {}, <<Str(Labels[1])>>), Arg("dict", "", {}, <<>>)}

\* What a call gives: an array, a list of events, or an exception.
Array(y) == [kind |-> "array", error |-> "", y |-> y, items |-> <<>>]
Raise(error) == [kind |-> "error", error |-> error, y |-> <<>>, items |-> <<>>]
EventList(items) == [kind |-> "list", error |-> "", y |-> <<>>, items |-> items]
\* The call has not returned.
Pending == [kind |-> "pending", error |-> "", y |-> <<>>, items |-> <<>>]

(***************************************************************************)
(* ManyHotEncoder: the methods                                             *)
(***************************************************************************)
\* pd.isna of an element.
IsNa(label) == label = NaN

\* np.zeros(len(self.labels)) + c and np.zeros((n_frames, len(labels))) + c.
Vector(c) == [i \in Columns |-> c]
Matrix(c) == [f \in Frames |-> [i \in Columns |-> c]]

\* The bound k of a slice of an axis of length n, as Python normalises it.
SliceBound(k, n) ==
    IF k < 0 THEN (IF k + n < 0 THEN 0 ELSE k + n)
    ELSE (IF k > n THEN n ELSE k)

\* The frames that y[onset:offset, i] = 1 writes.
SlicedInclusive(onset, offset) ==
    {f \in Frames : SliceBound(onset, n_frames) <= f
                    /\ f <= SliceBound(offset, n_frames)}
Sliced(onset, offset) ==
    {f \in Frames : SliceBound(onset, n_frames) <= f
                    /\ f < SliceBound(offset, n_frames)}

\* y[onset:offset, i] = 1
SetSlice(y, onset, offset, i) ==
    [f \in Frames |->
        IF f \in Sliced(onset, offset) THEN [y[f] EXCEPT ![i] = 1] ELSE y[f]]

\* y[:, i] = 1
SetColumnFirstFrame(y, i) ==
    [f \in Frames |-> IF f = 0 THEN [y[f] EXCEPT ![i] = 1] ELSE y[f]]
SetColumn(y, i) == [f \in Frames |-> [y[f] EXCEPT ![i] = 1]]

\* `x is not ""`: false only of the object of the literal itself.
IsNotEmptyLiteral(e) == ~(e.label = "" /\ e.interned)

\* The labels encode_weak iterates over: a DataFrame gives [] when empty,
\* its event_label column when it has one and its column names otherwise;
\* anything else gives its elements.
FilenameOnly == <<Str("filename")>>
WeakLabels(labels) ==
    IF labels.type = "DataFrame"
    THEN IF labels.items = <<>> THEN <<>>
         ELSE IF "event_label" \in labels.columns THEN labels.items
         ELSE FilenameOnly
    ELSE labels.items

\* The loop of encode_weak.
RECURSIVE WeakLoopSkipUnknown(_, _)
WeakLoopSkipUnknown(items, y) ==
    IF items = <<>> THEN Array(y)
    ELSE LET label == Head(items).label
         IN  IF IsNa(label) \/ ~InVocabulary(label)
             THEN WeakLoopSkipUnknown(Tail(items), y)
             ELSE WeakLoopSkipUnknown(Tail(items),
                                      [y EXCEPT ![Index(label)] = 1])
RECURSIVE WeakLoop(_, _)
WeakLoop(items, y) ==
    IF items = <<>> THEN Array(y)
    ELSE LET label == Head(items).label
         IN  IF IsNa(label) THEN WeakLoop(Tail(items), y)
             ELSE IF ~InVocabulary(label) THEN Raise("ValueError")
             ELSE WeakLoop(Tail(items), [y EXCEPT ![Index(label)] = 1])

encode_weak(labels) ==
    IF labels.type = "str" /\ labels.text = "empty"
    THEN Array(Vector(0 - 1))
    ELSE WeakLoop(WeakLabels(labels), Vector(0))

\* One row: of a DataFrame, or the row a Series with an event index is.
EncodeRow(row, y) ==
    IF IsNa(row.label) THEN Array(y)
    ELSE IF ~InVocabulary(row.label) THEN Raise("ValueError")
    ELSE Array(SetSlice(y, row.onset, row.offset, Index(row.label)))

\* for _, row in label_df.iterrows()
RECURSIVE RowLoop(_, _)
RowLoop(rows, y) ==
    IF rows = <<>> THEN Array(y)
    ELSE LET r == EncodeRow(Head(rows), y)
         IN  IF r.kind = "error" THEN r ELSE RowLoop(Tail(rows), r.y)

\* for event_label in label_df
RECURSIVE EventLoop(_, _)
EventLoop(items, y) ==
    IF items = <<>> THEN Array(y)
    ELSE LET e == Head(items)
         IN  IF e.type = "str"
             THEN IF ~IsNotEmptyLiteral(e) THEN EventLoop(Tail(items), y)
                  ELSE IF ~InVocabulary(e.label) THEN Raise("ValueError")
                  ELSE EventLoop(Tail(items), SetColumn(y, Index(e.label)))
             ELSE IF e.type = "float" THEN Raise("TypeError")
             ELSE IF e.len = 3
             THEN IF ~IsNotEmptyLiteral(e) THEN EventLoop(Tail(items), y)
                  ELSE IF ~InVocabulary(e.label) THEN Raise("ValueError")
                  ELSE EventLoop(Tail(items),
                           SetSlice(y, e.onset, e.offset, Index(e.label)))
             ELSE Raise("NotImplementedError")

encode_strong_df(label_df) ==
    IF label_df.type = "str" /\ label_df.text = "empty"
    THEN Array(Matrix(0 - 1))
    ELSE IF label_df.type = "DataFrame"
    THEN IF StrongColumns \subseteq label_df.columns
         THEN RowLoop(label_df.items, Matrix(0))
         ELSE Array(Matrix(0))
    ELSE IF label_df.type \in {"Series", "list", "ndarray"}
    THEN IF label_df.type = "Series" /\ StrongColumns \subseteq label_df.columns
         THEN EncodeRow(label_df.items[1], Matrix(0))
         ELSE EventLoop(label_df.items, Matrix(0))
    ELSE Raise("NotImplementedError")

\* DecisionEncoder().find_contiguous_regions: the indices where the activity
\* changes, 0 before them when the first frame is active and the length
\* after them when the last frame is; then reshape((-1, 2)).
IsChange(col, k) ==
    \/ k = 0 /\ col[0] # 0
    \/ k = n_frames /\ col[n_frames - 1] # 0
    \/ 0 < k /\ k < n_frames /\ ((col[k] # 0) # (col[k - 1] # 0))

RECURSIVE ChangeIndices(_, _)
ChangeIndices(col, k) ==
    IF k > n_frames THEN <<>>
    ELSE (IF IsChange(col, k) THEN <<k>> ELSE <<>>) \o ChangeIndices(col, k + 1)

RECURSIVE Reshape2(_)
Reshape2(idx) ==
    IF Len(idx) < 2 THEN <<>>
    ELSE << <<idx[1], idx[2]>> >> \o Reshape2(Tail(Tail(idx)))

find_contiguous_regions(col) == Reshape2(ChangeIndices(col, 0))

\* The events of column i, in run order.
ColumnEvents(labels, i) ==
    LET regions == find_contiguous_regions([f \in Frames |-> labels[f][i]])
    IN  [k \in 1..Len(regions) |->
            Event(Labels[i + 1], regions[k][1], regions[k][2])]

RECURSIVE DecodeFrom(_, _)
DecodeFrom(labels, i) ==
    IF i >= Len(Labels) THEN <<>>
    ELSE ColumnEvents(labels, i) \o DecodeFrom(labels, i + 1)

decode_strong(labels) == EventList(DecodeFrom(labels, 0))

\* The matrices decode_strong is given: every matrix of 0 and 1, and the
\* matrix of -1 that encodes "empty".
Matrices == [Frames -> [Columns -> {0, 1}]] \cup {Matrix(0 - 1)}

\* A call: the method, its argument, and what it gave once it has returned.
Call(method, arg) ==
    /\ enc_op = method
    /\ enc_arg = arg
    /\ enc_res = Pending

\* encode_weak of a list or a Series of labels, of a table, of a string.
WeakSequenceCall ==
    \E t \in {"list", "Series"}, k \in 0..MaxItems :
        \E items \in [1..k -> WeakElements] :
            Call("encode_weak", Arg(t, "", {}, items))

WeakTableCall ==
    \E cols \in {AllColumns, {"filename", "event_label"}, {"filename"}},
       k \in 0..MaxItems :
        \E rows \in [1..k -> LabelRows] :
            Call("encode_weak", Arg("DataFrame", "", cols, rows))

WeakOtherCall ==
    \E labels \in StrArgs : Call("encode_weak", labels)

\* encode_strong_df of a list of events and labels, of a Series of labels,
\* of a table with or without the onset and offset columns, of anything else.
StrongListCall ==
    \E k \in 0..MaxItems :
        \E items \in [1..k -> ListElements] :
            Call("encode_strong_df", Arg("list", "", {}, items))

StrongSeriesCall ==
    \E k \in 0..MaxItems :
        \E items \in [1..k -> WeakElements] :
            Call("encode_strong_df", Arg("Series", "", {}, items))

StrongTableCall ==
    \E k \in 0..MaxItems :
        \E rows \in [1..k -> RowElements] :
            Call("encode_strong_df", Arg("DataFrame", "", AllColumns, rows))

StrongWeakTableCall ==
    \E cols \in {{"filename", "event_label"}, {"filename"}},
       k \in 0..MaxItems :
        \E rows \in [1..k -> LabelRows] :
            Call("encode_strong_df", Arg("DataFrame", "", cols, rows))

StrongOtherCall ==
    \E label_df \in StrArgs \cup RowSeriesArgs \cup OtherArgs :
        Call("encode_strong_df", label_df)

DecodeCall ==
    \E labels \in Matrices : Call("decode_strong", labels)

\* The encoder is constructed and one of its methods is about to be called.
ENC_Init ==
    \/ WeakSequenceCall
    \/ WeakTableCall
    \/ WeakOtherCall
    \/ StrongListCall
    \/ StrongSeriesCall
    \/ StrongTableCall
    \/ StrongWeakTableCall
    \/ StrongOtherCall
    \/ DecodeCall

\* The encoder when another object is exercised.
ENC_Idle == Call("decode_strong", Matrix(0))

ENC_encode_weak ==
    /\ enc_op = "encode_weak"
    /\ enc_res = Pending
    /\ enc_res' = encode_weak(enc_arg)
    /\ UNCHANGED <<enc_op, enc_arg, esVars, sbVars, amVars>>

ENC_encode_strong_df ==
    /\ enc_op = "encode_strong_df"
    /\ enc_res = Pending
    /\ enc_res' = encode_strong_df(enc_arg)
    /\ UNCHANGED <<enc_op, enc_arg, esVars, sbVars, amVars>>

ENC_decode_strong ==
    /\ enc_op = "decode_strong"
    /\ enc_res = Pending
    /\ enc_res' = decode_strong(enc_arg)
    /\ UNCHANGED <<enc_op, enc_arg, esVars, sbVars, amVars>>

ENC_Next ==
    \/ ENC_encode_weak
    \/ ENC_encode_strong_df
    \/ ENC_decode_strong

(***************************************************************************)
(* Claims about EarlyStopping                                              *)
(***************************************************************************)
ES_IsC1Object ==
    es_patience = 2 /\ es_val_comp = "inf" /\ es_first_early_wait = 0

\* C1 (as stated): EarlyStopping(patience=2, val_comp="inf", init_patience=0)
\* applied to 5, 4, 5, 5, 5 returns False on the first three calls and True
\* on the 4th call (index 3).
C1_AsStated ==
    (ES_IsC1Object /\ es_hist = <<5, 4, 5, 5, 5>>)
        => (~es_rets[1] /\ ~es_rets[2] /\ ~es_rets[3] /\ es_rets[4])

\* C1 (amended): on 5, 4, 5, 5, 5 the same object returns False on the first
\* four calls and True on the 5th call (index 4): the best epoch is 1, and
\* current_epoch - best_epoch first exceeds the patience 2 when
\* current_epoch is 4.
C1_StopsOnFifthCall ==
    (ES_IsC1Object /\ es_hist = <<5, 4, 5, 5, 5>>)
        => (es_rets = <<FALSE, FALSE, FALSE, FALSE, TRUE>>
            /\ es_best_val = 4 /\ es_best_epoch = 1 /\ es_current_epoch = 0)

C1_Witness == ES_IsC1Object /\ es_hist = <<5, 4, 5, 5, 5>>

\* C2: in either mode a call returns True exactly when its value does not
\* strictly improve on best_val, current_epoch - best_epoch exceeds patience
\* and current_epoch exceeds init_patience; that call resets current_epoch to
\* 0; every other call returns False and adds exactly 1 to current_epoch.
C2_StopExactlyWhen ==
    [][ Len(es_rets') = Len(es_rets) + 1 =>
          LET value == Last(es_hist')
              improves == IF es_val_comp = "inf" THEN value < es_best_val
                                                 ELSE value > es_best_val
              stop == /\ ~improves
                      /\ es_current_epoch - es_best_epoch > es_patience
                      /\ es_current_epoch > es_first_early_wait
          IN  /\ Last(es_rets') <=> stop
              /\ Last(es_rets') => es_current_epoch' = 0
              /\ ~Last(es_rets') => es_current_epoch' = es_current_epoch + 1
      ]_vars

\* A stop signalled under "sup" after the warm-up had to be waited for.
C2_Witness ==
    /\ es_rets # <<>> /\ Last(es_rets)
    /\ es_val_comp = "sup" /\ es_first_early_wait > es_patience

\* C10: in every state reachable through apply calls, calls after a stop
\* included, best_epoch <= current_epoch.
C10_BestEpochNotAfterCurrent == es_best_epoch <= es_current_epoch

(***************************************************************************)
(* Claims about SaveBest                                                   *)
(***************************************************************************)
RECURSIVE SeqMin(_)
SeqMin(s) ==
    IF Len(s) = 1 THEN s[1]
    ELSE LET m == SeqMin(SubSeq(s, 1, Len(s) - 1))
         IN  IF Last(s) < m THEN Last(s) ELSE m

FirstIndexOf(s, v) ==
    CHOOSE k \in 1..Len(s) : s[k] = v /\ \A j \in 1..(k - 1) : s[j] # v

\* C3: under "inf" the k-th call (from 0) returns True iff k = 0 or its value
\* is strictly smaller than every earlier value; afterwards best_val is the
\* minimum of the values seen and best_epoch the index of the first call
\* that reached it.  For 5, 3, 4, 3: True, True, False, False, best_val 3,
\* best_epoch 1.
C3_SaveBestInf ==
    sb_comp = "inf" =>
        /\ Len(sb_rets) = Len(sb_hist)
        /\ \A k \in 1..Len(sb_hist) :
              sb_rets[k] <=>
                  (k = 1 \/ \A j \in 1..(k - 1) : sb_hist[k] < sb_hist[j])
        /\ sb_hist # <<>> =>
              /\ sb_best_val = SeqMin(sb_hist)
              /\ sb_best_epoch = FirstIndexOf(sb_hist, SeqMin(sb_hist)) - 1
        /\ sb_hist = <<5, 3, 4, 3>> =>
              /\ sb_rets = <<TRUE, TRUE, FALSE, FALSE>>
              /\ sb_best_val = 3
              /\ sb_best_epoch = 1

C3_Witness == sb_comp = "inf" /\ sb_hist = <<5, 3, 4, 3>>

\* C4: in either mode, whenever apply(value) returns True, best_val is the
\* value just passed and best_epoch the index of that call; and every call
\* adds exactly 1 to current_epoch.
C4_TrueMeansRecorded ==
    /\ sb_current_epoch = Len(sb_hist)
    /\ (sb_rets # <<>> /\ Last(sb_rets)) =>
          /\ sb_best_val = Last(sb_hist)
          /\ sb_best_epoch = Len(sb_hist) - 1


(***************************************************************************)
(* Claims about AverageMeterSet                                            *)
(***************************************************************************)
\* The updates of one name, in order.
UpdatesOf(name) == SelectSeq(am_hist, LAMBDA u : u[1] = name)

RECURSIVE SumCount(_)
SumCount(us) == IF us = <<>> THEN 0 ELSE us[1][3] + SumCount(Tail(us))

RECURSIVE SumWeighted(_)
SumWeighted(us) ==
    IF us = <<>> THEN 0 ELSE us[1][2] * us[1][3] + SumWeighted(Tail(us))

\* What C9 says of a state.
C9_Totals ==
    /\ DOMAIN meters = {am_hist[k][1] : k \in 1..Len(am_hist)}
    /\ \A name \in DOMAIN meters :
          LET us == UpdatesOf(name)
              m == meters[name]
          IN  /\ m.count = SumCount(us)
              /\ m.sum = SumWeighted(us)
              /\ m.val = Last(us)[2]
              /\ m.avg.den > 0
              /\ m.avg.num * m.count = m.sum * m.avg.den
    /\ am_hist = << <<"loss", 1, 1>>, <<"loss", 3, 1>> >> =>
          /\ meters["loss"].avg = [num |-> 2, den |-> 1]
          /\ meters["loss"].count = 2
          /\ meters["loss"].sum = 4

\* What C9 says of an update: the meters of the other names are as before.
C9_OthersUnchanged ==
    Len(am_hist') = Len(am_hist) + 1 =>
        \A name \in DOMAIN meters :
            name # Last(am_hist')[1] => meters'[name] = meters[name]

\* C9: after any sequence of update(name, value, n), n >= 1, a meter exists
\* for a name iff the name has been updated; its count is the sum of that
\* name's n, its sum the sum of value * n, its val the last value given for
\* the name, and avg * count = sum; an update of one name leaves the meter
\* of every other name unchanged.  After ("loss", 1), ("loss", 3): average
\* 2, count 2, sum 4.
C9_MeterTotals == []C9_Totals /\ [][C9_OthersUnchanged]_vars

\* Two names updated in turn, one of them with a weight above 1.
C9_Witness ==
    /\ Len(am_hist) = 3
    /\ am_hist[1] = <<"loss", 1, 1>> /\ am_hist[2] = <<"acc", 2, 2>>
    /\ am_hist[3] = <<"loss", 3, 1>>
    /\ meters["loss"].avg = [num |-> 2, den |-> 1]

(***************************************************************************)
(* Claims about ManyHotEncoder                                             *)
(***************************************************************************)
IsSequence(arg) ==
    arg.type \in {"list", "Series"} /\ ~(StrongColumns \subseteq arg.columns)

ItemsOf(arg) == {arg.items[k] : k \in 1..Len(arg.items)}

IsTuple(e) == e.type = "list" /\ e.len = 3

\* Event tuples with 0 <= onset <= offset <= n_frames and bare label
\* strings, every label in the vocabulary.
IsC5Input(arg) ==
    /\ IsSequence(arg)
    /\ \A e \in ItemsOf(arg) :
          /\ InVocabulary(e.label)
          /\ \/ e.type = "str"
             \/ IsTuple(e) /\ 0 <= e.onset /\ e.onset <= e.offset
                           /\ e.offset <= n_frames

IsShaped(y) ==
    DOMAIN y = Frames /\ \A f \in Frames : DOMAIN y[f] = Columns

\* C5: for a sequence of event tuples (label, onset, offset) with
\* 0 <= onset <= offset <= n_frames and bare label strings, all labels in the
\* vocabulary, encode_strong_df returns an n_frames x |vocabulary| matrix
\* whose entry (f, l) is 1 iff a tuple of label l has onset <= f < offset or
\* a bare string is l, and 0 otherwise; onset 2, offset 5 sets exactly the
\* frames 2, 3, 4 of the label's column.
C5_EncodeStrong ==
    (enc_op = "encode_strong_df" /\ enc_res # Pending /\ IsC5Input(enc_arg)) =>
        /\ enc_res.kind = "array"
        /\ IsShaped(enc_res.y)
        /\ \A f \in Frames, i \in Columns :
              enc_res.y[f][i] =
                  IF \E e \in ItemsOf(enc_arg) :
                        /\ e.label = Labels[i + 1]
                        /\ \/ e.type = "str"
                           \/ IsTuple(e) /\ e.onset <= f /\ f < e.offset
                  THEN 1 ELSE 0
        /\ enc_arg.items = <<Event("Dog", 2, 5)>> =>
              \A f \in Frames :
                  /\ enc_res.y[f][1] = (IF f \in {2, 3, 4} THEN 1 ELSE 0)
                  /\ enc_res.y[f][0] = 0

\* The tuple of the example beside a bare string of the other label.
C5_Witness ==
    /\ enc_op = "encode_strong_df"
    /\ enc_res # Pending
    /\ enc_arg.type = "list"
    /\ enc_arg.items = <<Event("Dog", 2, 5), Str("Speech")>>
    /\ enc_res.kind = "array"
    /\ enc_res.y[4] = [i \in Columns |-> 1]
    /\ enc_res.y[1] = [i \in Columns |-> IF i = 0 THEN 1 ELSE 0]

IsBinary(labels) ==
    \A f \in Frames, i \in Columns : labels[f][i] \in {0, 1}

\* [a, b) is a maximal run of 1 in column i.
IsMaximalRun(labels, i, a, b) ==
    /\ a < b
    /\ \A f \in a..(b - 1) : labels[f][i] = 1
    /\ a = 0 \/ labels[a - 1][i] = 0
    /\ b = n_frames \/ labels[b][i] = 0

\* C6: for every n_frames x |vocabulary| matrix of 0 and 1, decode_strong
\* gives one event tuple (label, run_start, run_end) per maximal run;
\* encoding them gives the matrix back, and decoding that gives the same
\* set of event tuples.
C6_RoundTrip ==
    (enc_op = "decode_strong" /\ enc_res # Pending /\ IsBinary(enc_arg)) =>
        LET events == enc_res.items
            again == encode_strong_df(Arg("list", "", {}, events))
        IN  /\ enc_res.kind = "list"
            /\ \A i \in Columns, a \in 0..n_frames, b \in 0..n_frames :
                  (Event(Labels[i + 1], a, b) \in ItemsOf(enc_res))
                      <=> IsMaximalRun(enc_arg, i, a, b)
            /\ \A e \in ItemsOf(enc_res) : IsTuple(e) /\ InVocabulary(e.label)
            /\ again.kind = "array"
            /\ again.y = enc_arg
            /\ ItemsOf(decode_strong(again.y)) = ItemsOf(enc_res)

\* A matrix with two runs of one label and a run of the other.
C6_Witness ==
    /\ enc_op = "decode_strong"
    /\ enc_res # Pending
    /\ IsBinary(enc_arg)
    /\ enc_res.items =
          <<Event("Speech", 0, 2), Event("Speech", 3, 5), Event("Dog", 1, 4)>>

IsLabelCollection(arg) == arg.type \in {"list", "Series"}

\* The vector with 1 exactly at the vocabulary labels among the items.
Presence(items) ==
    [i \in Columns |->
        IF \E k \in 1..Len(items) : items[k].label = Labels[i + 1]
        THEN 1 ELSE 0]

HasUnknownLabel(items) ==
    \E k \in 1..Len(items) :
        ~IsNa(items[k].label) /\ ~InVocabulary(items[k].label)

\* C7 (as stated): encode_weak never fails on an unknown or missing entry:
\* for every collection of labels, labels outside the vocabulary and missing
\* (NaN) entries included, it returns the vector with 1 exactly at the
\* vocabulary labels present, the other entries being skipped.
C7_AsStated ==
    (enc_op = "encode_weak" /\ enc_res # Pending /\ IsLabelCollection(enc_arg)) =>
        /\ enc_res.kind = "array"
        /\ enc_res.y = Presence(enc_arg.items)

\* C7 (amended): for every collection whose entries are vocabulary labels or
\* missing (NaN), encode_weak returns the vector with one entry per
\* vocabulary label, 1 exactly at the labels present, the missing entries
\* being skipped; a collection holding a label outside the vocabulary makes
\* it raise ValueError and return no vector.
C7_MissingSkippedUnknownRaises ==
    (enc_op = "encode_weak" /\ enc_res # Pending /\ IsLabelCollection(enc_arg)) =>
        IF HasUnknownLabel(enc_arg.items)
        THEN enc_res = Raise("ValueError")
        ELSE /\ enc_res.kind = "array"
             /\ DOMAIN enc_res.y = Columns
             /\ enc_res.y = Presence(enc_arg.items)

\* A missing entry beside a vocabulary label.
C7_Witness ==
    /\ enc_op = "encode_weak"
    /\ enc_arg.type = "list"
    /\ enc_arg.items = <<Element("float", 0, NaN, 0, 0, FALSE), Str("Dog")>>
    /\ enc_res.kind = "array"
    /\ enc_res.y = [i \in Columns |-> IF i = 1 THEN 1 ELSE 0]

\* The three shapes encode_strong accepts.
IsAcceptedShape(arg) ==
    \/ arg.type = "str" /\ arg.text = "empty"
    \/ arg.type = "DataFrame" /\ StrongColumns \subseteq arg.columns
    \/ /\ arg.type \in {"list", "Series"}
       /\ \A e \in ItemsOf(arg) : e.type = "str" \/ IsTuple(e)

\* C8: with n_frames set, encode_strong_df raises NotImplementedError and
\* returns no matrix for every input that is not the "empty" string, a table
\* with onset, offset and event_label columns, or a sequence of label
\* strings and 3-element tuples.
C8_OtherShapesRaise ==
    (enc_op = "encode_strong_df" /\ enc_res # Pending /\ ~IsAcceptedShape(enc_arg)) =>
        enc_res = Raise("NotImplementedError")

(***************************************************************************)
(* Specifications                                                          *)
(***************************************************************************)
\* The objects a specification does not exercise stay as constructed.
ES_Idle == ES_Init /\ es_patience = 0 /\ es_first_early_wait = 0
           /\ es_val_comp = "inf"
SB_Idle == SB_Init /\ sb_comp = "inf"

InitES == ES_Init /\ SB_Idle /\ AM_Init /\ ENC_Idle
InitSB == SB_Init /\ ES_Idle /\ AM_Init /\ ENC_Idle
InitAM == AM_Init /\ ES_Idle /\ SB_Idle /\ ENC_Idle
InitENC == ES_Idle /\ SB_Idle /\ AM_Init /\ ENC_Init

SpecES == InitES /\ [][ES_Next]_vars
SpecSB == InitSB /\ [][SB_Next]_vars
SpecAM == InitAM /\ [][AM_Next]_vars
SpecENC == InitENC /\ [][ENC_Next]_vars

====
